---- MODULE Spec2Model ----
(***************************************************************************)
(* A model of ArgumentParser (src/ArgumentParser.hpp): the registry built  *)
(* by addOption, clear(), hasParsedOption() and the scan of                *)
(* parseArguments().                                                       *)
(*                                                                         *)
(* A std::string is a sequence of one-character strings, so that the       *)
(* prefix tests (strncmp), the case-insensitive compare (strcasecmp) and   *)
(* the normalisation of addOption are computed character by character.     *)
(* A char const* slot of argv is NULL (the empty tuple) or Ptr(s), a       *)
(* one-element tuple holding the string pointed to.  argv is a function    *)
(* on 0..argc, indexed as in the source.                                   *)
(*                                                                         *)
(* Not modelled: the text written to stderr (_printHelp and the two        *)
(* diagnostics), and the help string of an option, which only _printHelp   *)
(* reads.  exit() ends the process: no operation is enabled afterwards.    *)
(***************************************************************************)
EXTENDS Integers, Sequences, FiniteSets, TLC

VARIABLES
    mOptionsHandlerMap,   \* std::map< std::string, _OptionHandler >
    mOptionsValueNames,   \* std::set< std::string >
    mRequiredOptions,     \* std::map< std::string, bool >
    mParsedOptions,       \* std::map< std::string, OptionArgument >
    mNonOptionArguments,  \* std::vector< std::string >
    op,                   \* the last member function called on the instance
    args,                 \* the arguments of that call
    outcome,              \* how that call ended
    missingOptions,       \* parseArguments' local missingOptions when it ended
    callbackLog,          \* the values the callbacks of that call were invoked with
    wasCleared            \* the instance held no parse results when that call began

vars == << mOptionsHandlerMap, mOptionsValueNames, mRequiredOptions,
           mParsedOptions, mNonOptionArguments, op, args, outcome,
           missingOptions, callbackLog, wasCleared >>

----------------------------------------------------------------------------
(* Strings *)

\* The code of a character: std::map and std::set order their keys by it.
CharCode(c) ==
    CASE c = "-" -> 45
      [] c = "E" -> 69
      [] c = "H" -> 72
      [] c = "L" -> 76
      [] c = "P" -> 80
      [] c = "a" -> 97
      [] c = "b" -> 98
      [] c = "c" -> 99
      [] c = "d" -> 100
      [] c = "e" -> 101
      [] c = "h" -> 104
      [] c = "l" -> 108
      [] c = "m" -> 109
      [] c = "n" -> 110
      [] c = "p" -> 112
      [] c = "t" -> 116
      [] c = "v" -> 118
      [] c = "w" -> 119
      [] c = "x" -> 120
      [] c = "y" -> 121

\* tolower() of a character, as strcasecmp applies it.
ToLower(c) ==
    CASE c = "E" -> "e"
      [] c = "H" -> "h"
      [] c = "L" -> "l"
      [] c = "P" -> "p"
      [] OTHER -> c

\* 0 == strcasecmp( s, t )
StrCaseEqual(s, t) ==
    /\ Len(s) = Len(t)
    /\ \A i \in 1..Len(s) : ToLower(s[i]) = ToLower(t[i])

\* 0 == strncmp( s, "--", 2 )
StartsWithDashDash(s) ==
    /\ Len(s) >= 2
    /\ s[1] = "-"
    /\ s[2] = "-"

\* std::string operator< : lexicographic on the character codes.
RECURSIVE StrLess(_, _)
StrLess(s, t) ==
    IF t = << >> THEN FALSE
    ELSE IF s = << >> THEN TRUE
    ELSE IF CharCode(s[1]) # CharCode(t[1]) THEN CharCode(s[1]) < CharCode(t[1])
    ELSE StrLess(Tail(s), Tail(t))

\* The keys of a std::map or std::set in iteration order.
RECURSIVE KeysInOrder(_)
KeysInOrder(S) ==
    IF S = {} THEN << >>
    ELSE LET first == CHOOSE k \in S : \A o \in S \ {k} : StrLess(k, o)
         IN  << first >> \o KeysInOrder(S \ {first})

HelpOption == << "-", "-", "h", "e", "l", "p" >>

----------------------------------------------------------------------------
(* Pointers *)

NULL == << >>
Ptr(s) == << s >>
Deref(p) == p[1]

----------------------------------------------------------------------------
(* addOption *)

Thrown == [thrown |-> TRUE, value |-> << >>]
Value(s) == [thrown |-> FALSE, value |-> s]

\* NormalizeOptionString prefixing "--" whenever the string is not prefixed
\* with "--" already.
NormalizeOptionStringTwoDashes(optionString) ==
    IF optionString = << >> THEN Thrown
    ELSE IF optionString[1] # "-" THEN Value(<< "-", "-" >> \o optionString)
    ELSE IF Len(optionString) >= 2 /\ optionString[2] # "-"
         THEN Value(<< "-", "-" >> \o optionString)
    ELSE IF Len(optionString) >= 3 THEN Value(optionString)
    ELSE Thrown

\* The normalisation of the option string: the thrown std::invalid_argument
\* or the normalized string.
NormalizeOptionString(optionString) ==
    IF optionString = << >> THEN Thrown
    ELSE IF optionString[1] # "-" THEN Value(<< "-", "-" >> \o optionString)
    ELSE IF Len(optionString) >= 2 /\ optionString[2] # "-"
         THEN Value(<< "-" >> \o optionString)
    ELSE IF Len(optionString) >= 3 THEN Value(optionString)
    ELSE Thrown

TakesValue(valueRequired) == valueRequired \in {"required", "optional"}

\* AddOptionRejects without the test for a handler already defined.
AddOptionRejectsNoDuplicate(normalized, valueName, valueRequired) ==
    \/ StrCaseEqual(HelpOption, normalized)
    \/ /\ TakesValue(valueRequired)
       /\ \/ valueName = << >>
          \/ valueName \in mOptionsValueNames
          \/ /\ valueName \in DOMAIN mOptionsHandlerMap
             /\ mOptionsHandlerMap[valueName].valueRequired = "none"
    \/ /\ ~TakesValue(valueRequired)
       /\ normalized \in mOptionsValueNames

\* AddOptionRejects without the test of a flag taking no value against the
\* claimed value names.
AddOptionRejectsNoCollision(normalized, valueName, valueRequired) ==
    \/ StrCaseEqual(HelpOption, normalized)
    \/ /\ TakesValue(valueRequired)
       /\ \/ valueName = << >>
          \/ valueName \in mOptionsValueNames
          \/ /\ valueName \in DOMAIN mOptionsHandlerMap
             /\ mOptionsHandlerMap[valueName].valueRequired = "none"
    \/ normalized \in DOMAIN mOptionsHandlerMap

\* The conditions under which addOption throws std::invalid_argument, in the
\* order the code tests them; normalized is the normalized option string.
AddOptionRejects(normalized, valueName, valueRequired) ==
    \/ StrCaseEqual(HelpOption, normalized)
    \/ /\ TakesValue(valueRequired)
       /\ \/ valueName = << >>
          \/ valueName \in mOptionsValueNames
          \/ /\ valueName \in DOMAIN mOptionsHandlerMap
             /\ mOptionsHandlerMap[valueName].valueRequired = "none"
    \/ /\ ~TakesValue(valueRequired)
       /\ normalized \in mOptionsValueNames
    \/ normalized \in DOMAIN mOptionsHandlerMap

\* The _OptionHandler addOption builds.
NewHandler(valueName, required, valueRequired, selection, callback, defaultValue) ==
    [ defaultStringValue |-> defaultValue,
      valueName          |-> IF TakesValue(valueRequired) THEN valueName ELSE << >>,
      callback           |-> callback,
      valueRequired      |-> valueRequired,
      selection          |-> selection,
      requiredOption     |-> required ]

\* m[ key ] = value on a std::map
MapPut(m, key, value) ==
    [k \in DOMAIN m \cup {key} |-> IF k = key THEN value ELSE m[k]]

\* The registry after a successful addOption: handler map, value names and
\* required options.
Registered(normalized, valueName, required, valueRequired, selection, callback, defaultValue) ==
    [ handlers   |-> MapPut(mOptionsHandlerMap, normalized,
                            NewHandler(valueName, required, valueRequired,
                                       selection, callback, defaultValue)),
      valueNames |-> IF TakesValue(valueRequired)
                     THEN mOptionsValueNames \cup {valueName}
                     ELSE mOptionsValueNames,
      required   |-> IF required
                     THEN MapPut(mRequiredOptions, normalized, FALSE)
                     ELSE mRequiredOptions ]

IsCleared ==
    /\ DOMAIN mParsedOptions = {}
    /\ mNonOptionArguments = << >>
    /\ \A o \in DOMAIN mRequiredOptions : ~mRequiredOptions[o]

\* exit() was called (or the behaviour is undefined): the process is over.
\* The call made: the function, its arguments as far as a property reads
\* them, and whether the instance held no parse results when it began.
Called(function, arguments) ==
    /\ op' = function
    /\ args' = arguments
    /\ wasCleared' = IsCleared

Exited == outcome \in {"exit_success", "exit_failure", "undefined"}

addOption(optionString, valueName, required, valueRequired, selection, callback, defaultValue) ==
    LET n == NormalizeOptionString(optionString)
        r == Registered(n.value, valueName, required, valueRequired,
                        selection, callback, defaultValue)
        rejected == n.thrown \/ AddOptionRejects(n.value, valueName, valueRequired)
    IN  /\ ~Exited
        /\ outcome' = IF rejected THEN "invalid_argument" ELSE "returned"
        /\ mOptionsHandlerMap' = IF rejected THEN mOptionsHandlerMap ELSE r.handlers
        /\ mOptionsValueNames' = IF rejected THEN mOptionsValueNames ELSE r.valueNames
        /\ mRequiredOptions' = IF rejected THEN mRequiredOptions ELSE r.required
        /\ missingOptions' = << >>
        /\ callbackLog' = << >>
        /\ UNCHANGED << mParsedOptions, mNonOptionArguments >>

----------------------------------------------------------------------------
(* clear *)

\* The loop that sets every entry of mRequiredOptions to false, without it.
RequiredLeftAsSeen(required) == required

\* mRequiredOptions with every entry set to false.
RequiredUnseen(required) == [o \in DOMAIN required |-> FALSE]

\* clear without mNonOptionArguments.clear().
clearKeepsNonOptionArguments ==
    /\ ~Exited
    /\ outcome' = "returned"
    /\ mRequiredOptions' = RequiredUnseen(mRequiredOptions)
    /\ mParsedOptions' = << >>
    /\ missingOptions' = << >>
    /\ callbackLog' = << >>
    /\ UNCHANGED << mOptionsHandlerMap, mOptionsValueNames, mNonOptionArguments >>

clear ==
    /\ ~Exited
    /\ outcome' = "returned"
    /\ mRequiredOptions' = RequiredUnseen(mRequiredOptions)
    /\ mParsedOptions' = << >>
    /\ mNonOptionArguments' = << >>
    /\ missingOptions' = << >>
    /\ callbackLog' = << >>
    /\ UNCHANGED << mOptionsHandlerMap, mOptionsValueNames >>

----------------------------------------------------------------------------
(* parseArguments *)

\* OptionArgument( optionString, valueName, optionValues )
OptionArgument(optionString, valueName, optionValues) ==
    [ mOptionString |-> optionString,
      mValueName    |-> valueName,
      mOptionValues |-> optionValues ]

\* ResolveValue without the ++index: the value is read and not consumed.
ResolveValueKeepsIndex(handler, argv, index) ==
    LET next == argv[index + 1]
    IN  IF handler.valueRequired = "optional"
        THEN IF next # NULL /\ ~StartsWithDashDash(Deref(next))
             THEN [skip |-> FALSE, consumed |-> FALSE, optionValue |-> Deref(next)]
             ELSE [skip |-> FALSE, consumed |-> FALSE,
                   optionValue |-> handler.defaultStringValue]
        ELSE IF handler.valueRequired = "required"
        THEN IF next = NULL
             THEN [skip |-> TRUE, consumed |-> FALSE,
                   optionValue |-> handler.defaultStringValue]
             ELSE [skip |-> FALSE, consumed |-> FALSE, optionValue |-> Deref(next)]
        ELSE [skip |-> FALSE, consumed |-> FALSE,
              optionValue |-> handler.defaultStringValue]

\* ResolveValue without the continue: a required value that is not present
\* is replaced by the default value.
ResolveValueDefaultsWhenAbsent(handler, argv, index) ==
    LET next == argv[index + 1]
    IN  IF handler.valueRequired = "optional"
        THEN IF next # NULL /\ ~StartsWithDashDash(Deref(next))
             THEN [skip |-> FALSE, consumed |-> TRUE, optionValue |-> Deref(next)]
             ELSE [skip |-> FALSE, consumed |-> FALSE,
                   optionValue |-> handler.defaultStringValue]
        ELSE IF handler.valueRequired = "required"
        THEN IF next = NULL
             THEN [skip |-> FALSE, consumed |-> FALSE,
                   optionValue |-> handler.defaultStringValue]
             ELSE [skip |-> FALSE, consumed |-> TRUE, optionValue |-> Deref(next)]
        ELSE [skip |-> FALSE, consumed |-> FALSE,
              optionValue |-> handler.defaultStringValue]

\* ResolveValue with the test of the optional value made for the required
\* value too: a next token that starts with "--" is not consumed.
ResolveValueStopsAtOption(handler, argv, index) ==
    LET next == argv[index + 1]
    IN  IF handler.valueRequired = "optional"
        THEN IF next # NULL /\ ~StartsWithDashDash(Deref(next))
             THEN [skip |-> FALSE, consumed |-> TRUE, optionValue |-> Deref(next)]
             ELSE [skip |-> FALSE, consumed |-> FALSE,
                   optionValue |-> handler.defaultStringValue]
        ELSE IF handler.valueRequired = "required"
        THEN IF next = NULL \/ StartsWithDashDash(Deref(next))
             THEN [skip |-> TRUE, consumed |-> FALSE,
                   optionValue |-> handler.defaultStringValue]
             ELSE [skip |-> FALSE, consumed |-> TRUE, optionValue |-> Deref(next)]
        ELSE [skip |-> FALSE, consumed |-> FALSE,
              optionValue |-> handler.defaultStringValue]

\* The value of an occurrence of a known option at argv[ index ] and whether
\* argv[ index + 1 ] is consumed for it.  skip: a required value is not
\* present and the loop continues with the next argument.
ResolveValue(handler, argv, index) ==
    LET next == argv[index + 1]
    IN  IF handler.valueRequired = "optional"
        THEN IF next # NULL /\ ~StartsWithDashDash(Deref(next))
             THEN [skip |-> FALSE, consumed |-> TRUE, optionValue |-> Deref(next)]
             ELSE [skip |-> FALSE, consumed |-> FALSE,
                   optionValue |-> handler.defaultStringValue]
        ELSE IF handler.valueRequired = "required"
        THEN IF next = NULL
             THEN [skip |-> TRUE, consumed |-> FALSE,
                   optionValue |-> handler.defaultStringValue]
             ELSE [skip |-> FALSE, consumed |-> TRUE, optionValue |-> Deref(next)]
        ELSE [skip |-> FALSE, consumed |-> FALSE,
              optionValue |-> handler.defaultStringValue]

\* mOptionValues[ 0 ] = optionValue would write into an empty vector.
WritesEmptyVector(parsed, handler) ==
    /\ TakesValue(handler.valueRequired)
    /\ handler.valueName \in DOMAIN parsed
    /\ handler.selection = "take_last"
    /\ parsed[handler.valueName].mOptionValues = << >>

\* StoreOccurrence without the test of the selection: every value is pushed.
StoreOccurrencePushesAll(parsed, argument, handler, optionValue) ==
    IF TakesValue(handler.valueRequired)
    THEN IF handler.valueName \notin DOMAIN parsed
         THEN MapPut(parsed, handler.valueName,
                     OptionArgument(argument, handler.valueName, << optionValue >>))
         ELSE MapPut(parsed, handler.valueName,
                     [parsed[handler.valueName] EXCEPT
                          !.mOptionValues = Append(@, optionValue)])
    ELSE MapPut(parsed, argument, OptionArgument(argument, << >>, << >>))

\* mParsedOptions after the occurrence of a known option is stored.
StoreOccurrence(parsed, argument, handler, optionValue) ==
    IF TakesValue(handler.valueRequired)
    THEN IF handler.valueName \notin DOMAIN parsed
         THEN MapPut(parsed, handler.valueName,
                     OptionArgument(argument, handler.valueName, << optionValue >>))
         ELSE LET found == parsed[handler.valueName]
                  last == IF handler.selection = "take_last"
                          THEN [found EXCEPT !.mOptionValues[1] = optionValue]
                          ELSE found
                  all == IF handler.selection = "take_all"
                         THEN [last EXCEPT !.mOptionValues = Append(@, optionValue)]
                         ELSE last
              IN  MapPut(parsed, handler.valueName, all)
    ELSE MapPut(parsed, argument, OptionArgument(argument, << >>, << >>))

\* MarkSeen without the assignment.
MarkSeenNever(required, argument) == required

\* mRequiredOptions after a stored occurrence of argument.
MarkSeen(required, argument) ==
    IF argument \in DOMAIN required
    THEN [required EXCEPT ![argument] = TRUE]
    ELSE required

\* The index the for loop starts from: its first ++index gives 1.
FirstIndex == 0

\* The unknown option kept as a positional argument.
UnknownOptionKept(st, argument) == [st EXCEPT !.nonOption = Append(@, argument)]

\* What the loop holds after an option that is not in mOptionsHandlerMap:
\* a message is written to std::cerr and the loop continues.
UnknownOption(st, argument) == st

\* One call of a handler's callback: the option it is called for, the
\* string it is passed, and the parsed options as they stand when it is
\* called.
Invocation(argument, optionValue, parsedOptions) ==
    [ option |-> argument, optionValue |-> optionValue,
      parsedOptions |-> parsedOptions ]

\* The for loop of parseArguments.  index is the loop variable before the
\* ++index of the loop condition; st holds mParsedOptions, mNonOptionArguments,
\* mRequiredOptions and the callback invocations so far.  end says how the
\* loop is left: "scanned" (index reached argc), "null" (the goto), "help"
\* (the exit) or "undefined" (a write outside a vector).
RECURSIVE Scan(_, _, _, _)
Scan(argc, argv, index0, st) ==
    LET index == index0 + 1
    IN  IF ~(index < argc) THEN [st EXCEPT !.end = "scanned"]
        ELSE IF argv[index] = NULL THEN [st EXCEPT !.end = "null"]
        ELSE
        LET argument == Deref(argv[index])
        IN  IF ~StartsWithDashDash(argument)
            THEN Scan(argc, argv, index,
                      [st EXCEPT !.nonOption = Append(@, argument)])
            ELSE IF StrCaseEqual(HelpOption, argument)
            THEN [st EXCEPT !.end = "help"]
            ELSE IF argument \notin DOMAIN mOptionsHandlerMap
            THEN Scan(argc, argv, index, UnknownOption(st, argument))
            ELSE
            LET handler == mOptionsHandlerMap[argument]
                v == ResolveValue(handler, argv, index)
            IN  IF v.skip THEN Scan(argc, argv, index, st)
                ELSE IF WritesEmptyVector(st.parsed, handler)
                THEN [st EXCEPT !.end = "undefined"]
                ELSE
                LET stored == StoreOccurrence(st.parsed, argument, handler,
                                              v.optionValue)
                IN  Scan(argc, argv, IF v.consumed THEN index + 1 ELSE index,
                         [ parsed    |-> stored,
                           nonOption |-> st.nonOption,
                           required  |-> MarkSeen(st.required, argument),
                           log       |-> IF handler.callback
                                         THEN Append(st.log,
                                                     Invocation(argument, v.optionValue,
                                                                stored))
                                         ELSE st.log,
                           end       |-> st.end ])

\* MissingOptions with the test of the seen state inverted.
MissingOptionsSeen(required) ==
    SelectSeq(KeysInOrder(DOMAIN required), LAMBDA o : required[o])

\* The required options not seen, in the order of mRequiredOptions.
MissingOptions(required) ==
    SelectSeq(KeysInOrder(DOMAIN required), LAMBDA o : ~required[o])

\* How parseArguments ends after the loop was left by index reaching argc.
EndOfParse(missing, throwOnMissingOptions) ==
    IF missing = << >> THEN "returned"
    ELSE IF throwOnMissingOptions THEN "MissingRequiredOption"
    ELSE "exit_failure"

\* parseArguments with a clear() at its entry: the loop starts from no
\* parsed option, no positional argument and no required option seen.
parseArgumentsAfterClear(argc, argv, throwOnMissingOptions) ==
    LET st == Scan(argc, argv, FirstIndex,
                   [ parsed |-> << >>, nonOption |-> << >>,
                     required |-> RequiredUnseen(mRequiredOptions),
                     log |-> << >>, end |-> "" ])
        missing == MissingOptions(st.required)
    IN  /\ ~Exited
        /\ UNCHANGED << mOptionsHandlerMap, mOptionsValueNames >>
        /\ IF argv[argc] # NULL \/ st.end = "null"
           THEN /\ outcome' = "invalid_argument"
                /\ missingOptions' = << >>
                /\ callbackLog' = IF argv[argc] # NULL THEN << >> ELSE st.log
                /\ mParsedOptions' = << >>
                /\ mNonOptionArguments' = << >>
                /\ mRequiredOptions' = RequiredUnseen(mRequiredOptions)
           ELSE /\ outcome' = CASE st.end = "help" -> "exit_success"
                                [] st.end = "undefined" -> "undefined"
                                [] OTHER -> EndOfParse(missing, throwOnMissingOptions)
                /\ missingOptions' = IF st.end = "scanned" THEN missing ELSE << >>
                /\ callbackLog' = st.log
                /\ mParsedOptions' = st.parsed
                /\ mNonOptionArguments' = st.nonOption
                /\ mRequiredOptions' = st.required

parseArguments(argc, argv, throwOnMissingOptions) ==
    LET st == Scan(argc, argv, FirstIndex,
                   [ parsed |-> mParsedOptions, nonOption |-> mNonOptionArguments,
                     required |-> mRequiredOptions, log |-> << >>, end |-> "" ])
        missing == MissingOptions(st.required)
    IN  /\ ~Exited
        /\ UNCHANGED << mOptionsHandlerMap, mOptionsValueNames >>
        /\ IF argv[argc] # NULL
           THEN /\ outcome' = "invalid_argument"
                /\ missingOptions' = << >>
                /\ callbackLog' = << >>
                /\ UNCHANGED << mRequiredOptions, mParsedOptions, mNonOptionArguments >>
           ELSE IF st.end = "null"
           THEN /\ outcome' = "invalid_argument"
                /\ missingOptions' = << >>
                /\ callbackLog' = st.log
                /\ mParsedOptions' = << >>
                /\ mNonOptionArguments' = << >>
                /\ mRequiredOptions' = RequiredUnseen(mRequiredOptions)
           ELSE /\ outcome' = CASE st.end = "help" -> "exit_success"
                                [] st.end = "undefined" -> "undefined"
                                [] OTHER -> EndOfParse(missing, throwOnMissingOptions)
                /\ missingOptions' = IF st.end = "scanned" THEN missing ELSE << >>
                /\ callbackLog' = st.log
                /\ mParsedOptions' = st.parsed
                /\ mNonOptionArguments' = st.nonOption
                /\ mRequiredOptions' = st.required

----------------------------------------------------------------------------
(* hasParsedOption *)

hasParsedOption(optionOrValueName) ==
    IF StartsWithDashDash(optionOrValueName)
    THEN IF optionOrValueName \notin DOMAIN mOptionsHandlerMap
         THEN FALSE
         ELSE IF mOptionsHandlerMap[optionOrValueName].valueName = << >>
              THEN optionOrValueName \in DOMAIN mParsedOptions
              ELSE mOptionsHandlerMap[optionOrValueName].valueName
                       \in DOMAIN mParsedOptions
    ELSE optionOrValueName \in DOMAIN mParsedOptions

getParsedOptions == mParsedOptions

getNonOptionArguments == mNonOptionArguments

----------------------------------------------------------------------------
(* The instance after construction *)

Init ==
    /\ mOptionsHandlerMap = << >>
    /\ mOptionsValueNames = {}
    /\ mRequiredOptions = << >>
    /\ mParsedOptions = << >>
    /\ mNonOptionArguments = << >>
    /\ op = "ArgumentParser"
    /\ args = << >>
    /\ outcome = "returned"
    /\ missingOptions = << >>
    /\ callbackLog = << >>
    /\ wasCleared = TRUE

----------------------------------------------------------------------------------------------------------------------------------------
(* The calls a program makes *)

OptionValues == {"none", "optional", "required"}
OptionSelections == {"take_first", "take_last", "take_all"}

Prog == << "p" >>
FlagA == << "-", "-", "a" >>
FlagB == << "-", "-", "b" >>
NameV == << "v" >>
TokX == << "x" >>
TokY == << "y" >>
DefaultD == << "d" >>

\* The argument vectors of argc slots whose slots 1..argc-1 are drawn from
\* Slots and whose slot argc is drawn from Last; argv[ 0 ] is the program.
Argvs(argc, Slots, Last) ==
    { [i \in 0..argc |-> IF i = 0 THEN Ptr(Prog)
                         ELSE IF i = argc THEN last
                         ELSE mid[i]] :
        mid \in [1..(argc - 1) -> Slots], last \in Last }

ParseArgs(argc, argv, throwOnMissingOptions) ==
    [ argc |-> argc, argv |-> argv, throwOnMissingOptions |-> throwOnMissingOptions ]

\* No parseArguments call was made yet: the options are still being added.
Registering == op \in {"ArgumentParser", "addOption"}

MaxArgc == 4

\* Two flags are registered, then well-terminated vectors without holes are
\* parsed, each on a cleared instance.
AddOptionCall ==
    /\ Registering
    /\ \E optionString \in {<< "a" >>, FlagB},
          valueName \in {<< >>, NameV, FlagB},
          required \in BOOLEAN,
          valueRequired \in OptionValues :
        /\ addOption(optionString, valueName, required, valueRequired,
                     "take_all", FALSE, DefaultD)
        /\ Called("addOption", << >>)

ParseCall ==
    /\ IsCleared
    /\ \E argc \in 1..MaxArgc, throwOnMissingOptions \in BOOLEAN :
        \E argv \in Argvs(argc, {Ptr(FlagA), Ptr(FlagB), Ptr(TokX), Ptr(TokY)}, {NULL}) :
            /\ parseArguments(argc, argv, throwOnMissingOptions)
            /\ Called("parseArguments", ParseArgs(argc, argv, throwOnMissingOptions))

ClearCall ==
    /\ clear
    /\ Called("clear", << >>)

Next ==
    \/ AddOptionCall
    \/ ParseCall
    \/ ClearCall

Spec == Init /\ [][Next]_vars

----------------------------------------------------------------------------
(* Registration alone *)

AddArgs(optionString, valueName, valueRequired) ==
    [ optionString |-> optionString, valueName |-> valueName,
      valueRequired |-> valueRequired ]

\* Spellings of two flags, the strings without a name, and a reserved one.
RegOptionStrings ==
    { << >>, << "-", "-" >>, << "a" >>, << "-", "a" >>, FlagA, FlagB,
      << "H", "e", "l", "p" >> }

AddOptionRegCall ==
    \E optionString \in RegOptionStrings,
       valueName \in {<< >>, NameV, FlagB},
       required \in BOOLEAN,
       valueRequired \in OptionValues :
        /\ addOption(optionString, valueName, required, valueRequired,
                     "take_last", FALSE, << >>)
        /\ Called("addOption", AddArgs(optionString, valueName, valueRequired))

NextReg == AddOptionRegCall

SpecReg == Init /\ [][NextReg]_vars

----------------------------------------------------------------------------
(* The first registration of a registry, over all short option strings *)

MaxRawLen == 4

\* The strings of at most n characters.
StringsUpTo(chars, n) == UNION {[1..k -> chars] : k \in 0..n}

NamedOptionStrings ==
    { << "n", "a", "m", "e" >>, << "-", "n", "a", "m", "e" >>,
      << "-", "-", "n", "a", "m", "e" >>,
      << "h", "e", "l", "p" >>, << "-", "H", "E", "L", "P" >>,
      << "-", "-", "h", "e", "L", "p" >>, << "-", "-", "-", "h", "e", "l", "p" >> }

AddOptionFirstCall ==
    /\ DOMAIN mOptionsHandlerMap = {}
    /\ \E optionString \in StringsUpTo({"-", "a", "b"}, MaxRawLen) \cup NamedOptionStrings :
        /\ addOption(optionString, << >>, FALSE, "none", "take_last", FALSE, << >>)
        /\ Called("addOption", AddArgs(optionString, << >>, "none"))

NextNorm == AddOptionFirstCall

SpecNorm == Init /\ [][NextNorm]_vars

----------------------------------------------------------------------------
(* One flag that takes a value, given up to three times *)

FlagT == << "-", "-", "t" >>
TokA == << "a" >>
TokB == << "b" >>

MaxSelArgc == 7

AddOptionSelCall ==
    /\ Registering
    /\ \E valueRequired \in {"optional", "required"},
          selection \in OptionSelections :
        /\ addOption(<< "t" >>, NameV, FALSE, valueRequired, selection, FALSE, DefaultD)
        /\ Called("addOption", << >>)

ParseSelCall ==
    /\ IsCleared
    /\ \E argc \in 1..MaxSelArgc :
        \E argv \in Argvs(argc, {Ptr(FlagT), Ptr(TokA), Ptr(TokB)}, {NULL}) :
            /\ parseArguments(argc, argv, FALSE)
            /\ Called("parseArguments", ParseArgs(argc, argv, FALSE))

NextSel ==
    \/ AddOptionSelCall
    \/ ParseSelCall
    \/ ClearCall

SpecSel == Init /\ [][NextSel]_vars

----------------------------------------------------------------------------
(* Vectors with NULL slots, without the terminating NULL, and with --help, *)
(* parsed on a cleared instance or right after a parse of one              *)

HelpVariant == << "-", "-", "H", "e", "L", "p" >>

MaxMalArgc == 3

AddOptionMalCall ==
    /\ Registering
    /\ \E required \in BOOLEAN, valueRequired \in OptionValues :
        /\ addOption(<< "a" >>, NameV, required, valueRequired, "take_last",
                     FALSE, DefaultD)
        /\ Called("addOption", << >>)

ParseMalCall ==
    /\ IsCleared \/ (op = "parseArguments" /\ wasCleared)
    /\ \E argc \in 1..MaxMalArgc, throwOnMissingOptions \in BOOLEAN :
        \E argv \in Argvs(argc, {Ptr(FlagA), Ptr(TokX), Ptr(HelpVariant), NULL},
                          {NULL, Ptr(TokX)}) :
            /\ parseArguments(argc, argv, throwOnMissingOptions)
            /\ Called("parseArguments", ParseArgs(argc, argv, throwOnMissingOptions))

NextMal ==
    \/ AddOptionMalCall
    \/ ParseMalCall
    \/ ClearCall

SpecMal == Init /\ [][NextMal]_vars

----------------------------------------------------------------------------
(* Two required flags, with and without a callback, among unknown flags, *)
(* positional tokens and --help                                          *)

FlagC == << "-", "-", "c" >>
NameW == << "w" >>

MaxObsArgc == 4

\* --a takes the first of its values under v, --b all of them under w.
AddOptionObsCall ==
    /\ Registering
    /\ \E o \in { [optionString |-> << "a" >>, valueName |-> NameV,
                    selection |-> "take_first"],
                  [optionString |-> FlagB, valueName |-> NameW,
                    selection |-> "take_all"] },
          valueRequired \in OptionValues,
          callback \in BOOLEAN :
        /\ addOption(o.optionString, o.valueName, TRUE, valueRequired,
                     o.selection, callback, DefaultD)
        /\ Called("addOption", << >>)

\* --c is never registered.  Every vector is parsed right after the
\* registration or right after clear().
ParseObsCall ==
    /\ Registering \/ op = "clear"
    /\ \E argc \in 1..MaxObsArgc :
        \E argv \in Argvs(argc, {Ptr(FlagA), Ptr(FlagB), Ptr(FlagC), Ptr(TokX),
                                 Ptr(HelpVariant)}, {NULL}) :
            /\ parseArguments(argc, argv, TRUE)
            /\ Called("parseArguments", ParseArgs(argc, argv, TRUE))

NextObs ==
    \/ AddOptionObsCall
    \/ ParseObsCall
    \/ ClearCall

SpecObs == Init /\ [][NextObs]_vars

----------------------------------------------------------------------------
(* The vocabulary of the properties, on the recorded call *)

Parsed == op = "parseArguments"

\* The loop of the last parseArguments call ran to the end of the vector.
Scanned == Parsed /\ outcome \in {"returned", "MissingRequiredOption", "exit_failure"}

\* The last parseArguments call failed on the shape of the vector.
Malformed == Parsed /\ outcome = "invalid_argument"

Known(s) == s \in DOMAIN mOptionsHandlerMap

\* Slot i of the vector holds the value of the flag in slot i - 1: that slot
\* is itself no value, holds a registered flag, and the flag takes slot i
\* (always for a required value, only a non-flag token for an optional one).
RECURSIVE IsValueSlot(_, _, _)
IsValueSlot(argv, argc, i) ==
    /\ 2 <= i
    /\ i < argc
    /\ argv[i] # NULL
    /\ argv[i - 1] # NULL
    /\ ~IsValueSlot(argv, argc, i - 1)
    /\ LET flag == Deref(argv[i - 1])
       IN  /\ StartsWithDashDash(flag)
           /\ Known(flag)
           /\ \/ mOptionsHandlerMap[flag].valueRequired = "required"
              \/ /\ mOptionsHandlerMap[flag].valueRequired = "optional"
                 /\ ~StartsWithDashDash(Deref(argv[i]))

\* Slot i holds a token the scan reads as a token of its own.
IsTokenSlot(argv, argc, i) ==
    /\ 1 <= i
    /\ i < argc
    /\ argv[i] # NULL
    /\ ~IsValueSlot(argv, argc, i)

\* Slot i holds flag as a token of its own.
IsFlagAt(argv, argc, i, flag) ==
    /\ IsTokenSlot(argv, argc, i)
    /\ Deref(argv[i]) = flag

\* Slot i holds flag, a flag with a required value, and no token follows.
LacksValueAt(argv, argc, i, flag) ==
    /\ IsFlagAt(argv, argc, i, flag)
    /\ Known(flag)
    /\ mOptionsHandlerMap[flag].valueRequired = "required"
    /\ argv[i + 1] = NULL

\* The elements of a sequence.
Range(q) == {q[i] : i \in 1..Len(q)}

\* The flags registered with required = true.
RequiredFlags == {f \in DOMAIN mOptionsHandlerMap : mOptionsHandlerMap[f].requiredOption}

----------------------------------------------------------------------------
(* C10 *)

\* The tokens of slots from..argc-1 that are tokens of their own and do not
\* start with "--", in the order of the vector.
RECURSIVE PositionalTokens(_, _, _)
PositionalTokens(argv, argc, from) ==
    IF from >= argc THEN << >>
    ELSE IF IsTokenSlot(argv, argc, from) /\ ~StartsWithDashDash(Deref(argv[from]))
    THEN << Deref(argv[from]) >> \o PositionalTokens(argv, argc, from + 1)
    ELSE PositionalTokens(argv, argc, from + 1)

\* C10: after a scan of a cleared instance that ran to the end, the positional
\* list is, in input order and with duplicates, the tokens at index >= 1 that
\* do not start with "--" and are not the value of the flag before them;
\* argv[ 0 ] is never in it.
C10_PositionalsInInputOrder ==
    (Scanned /\ wasCleared) =>
        getNonOptionArguments = PositionalTokens(args.argv, args.argc, 1)

\* prog x --a y with --a taking no value gives [x, y].
C10_Witness ==
    /\ Scanned
    /\ wasCleared
    /\ args.argc = 4
    /\ args.argv = [i \in 0..4 |-> << Ptr(Prog), Ptr(TokX), Ptr(FlagA), Ptr(TokY), NULL >>[i + 1]]
    /\ Known(FlagA)
    /\ mOptionsHandlerMap[FlagA].valueRequired = "none"
    /\ getNonOptionArguments = << TokX, TokY >>

----------------------------------------------------------------------------
(* C3 *)

\* C3: after a scan of a cleared instance that ran to the end, the missing
\* list holds, once each, exactly the canonical strings of the flags
\* registered as required that the scan did not mark seen (a required flag
\* that is no token of the vector is among them), and the call ends with
\* MissingRequiredOption (throw mode) or exit( EXIT_FAILURE ) (exit mode) if
\* and only if the list is not empty.
C3_MissingListIsUnseenRequired ==
    (Scanned /\ wasCleared) =>
        /\ DOMAIN mRequiredOptions = RequiredFlags
        /\ Range(missingOptions) = {f \in RequiredFlags : ~mRequiredOptions[f]}
        /\ Len(missingOptions) = Cardinality(Range(missingOptions))
        /\ \A f \in RequiredFlags :
               (\A i \in 1..(args.argc - 1) : Deref(args.argv[i]) # f)
                   => f \in Range(missingOptions)
        /\ (outcome = "MissingRequiredOption")
               <=> (missingOptions # << >> /\ args.throwOnMissingOptions)
        /\ (outcome = "exit_failure")
               <=> (missingOptions # << >> /\ ~args.throwOnMissingOptions)
        /\ (outcome = "returned") <=> (missingOptions = << >>)

\* Two required flags, one of them absent from the vector and reported alone.
C3_Witness ==
    /\ Scanned
    /\ wasCleared
    /\ RequiredFlags = {FlagA, FlagB}
    /\ mRequiredOptions[FlagA]
    /\ missingOptions = << FlagB >>
    /\ outcome = "MissingRequiredOption"

----------------------------------------------------------------------------
(* C4 *)

\* The last token of the vector is flag, whose required value is not there.
EndsLackingValue(flag) ==
    /\ args.argc >= 2
    /\ LacksValueAt(args.argv, args.argc, args.argc - 1, flag)

----------------------------------------------------------------------------
(* C2 *)

\* The vector is terminated by NULL and has no NULL slot before that.
WellFormed(argv, argc) ==
    /\ argv[argc] = NULL
    /\ \A i \in 1..(argc - 1) : argv[i] # NULL

\* Every token that starts with "--" is a registered flag.
NoUnknownFlag(argv, argc) ==
    \A i \in 1..(argc - 1) :
        (argv[i] # NULL /\ StartsWithDashDash(Deref(argv[i]))) => Known(Deref(argv[i]))

----------------------------------------------------------------------------
(* C9 *)

\* The key of mParsedOptions under which a registered flag is stored.
ParsedKey(flag) ==
    IF mOptionsHandlerMap[flag].valueRequired = "none"
    THEN flag
    ELSE mOptionsHandlerMap[flag].valueName

ProbeKeys == {<< >>, << "a" >>, FlagA, FlagB, NameV, TokX, TokY, HelpOption}

\* C9 as claimed: hasParsedOption( k ) is true exactly when k is a registered
\* flag with an entry under its key, or k is a value name with an entry; so
\* for every claimed value name v, hasParsedOption( v ) is true if and only
\* if v is a key of getParsedOptions().
C9_HasParsedOptionExact ==
    /\ \A k \in ProbeKeys :
           hasParsedOption(k) <=>
               \/ Known(k) /\ ParsedKey(k) \in DOMAIN getParsedOptions
               \/ k \in mOptionsValueNames /\ k \in DOMAIN getParsedOptions
    /\ \A v \in mOptionsValueNames :
           hasParsedOption(v) <=> v \in DOMAIN getParsedOptions

----------------------------------------------------------------------------
(* C6 *)

\* The normalized option string of the call recorded in a, if there is one.
NormalizedOf(a) == NormalizeOptionString(a.optionString)

\* C6: an addOption call whose normalized flag is already registered,
\* whatever its spelling, and an addOption call for a flag taking a value
\* whose value name is already claimed, throw std::invalid_argument and
\* leave the registry as it was.
C6_DuplicatesRejected ==
    [][ ( /\ op' = "addOption"
          /\ \/ /\ ~NormalizedOf(args').thrown
                /\ NormalizedOf(args').value \in DOMAIN mOptionsHandlerMap
             \/ /\ TakesValue(args'.valueRequired)
                /\ args'.valueName \in mOptionsValueNames )
        => /\ outcome' = "invalid_argument"
           /\ UNCHANGED << mOptionsHandlerMap, mOptionsValueNames, mRequiredOptions >>
      ]_vars

\* "a" is rejected after "--a" was registered under another value name.
C6_Witness ==
    /\ op = "addOption"
    /\ outcome = "invalid_argument"
    /\ args.optionString = << "a" >>
    /\ args.valueRequired = "none"
    /\ Known(FlagA)
    /\ mOptionsHandlerMap[FlagA].valueName = NameV
    /\ ~Known(FlagB)

----------------------------------------------------------------------------
(* C7 *)

\* C7: whatever addOption calls were made, a flag taking no value has an
\* empty value name; a flag taking a value has a non-empty value name that no
\* other flag has; the claimed value names are exactly the value names of
\* the flags taking a value; no claimed value name is the string of a
\* registered flag taking no value; so no two flags share a key of the
\* parsed options.
C7_RegistryWellFormed ==
    /\ \A f \in DOMAIN mOptionsHandlerMap :
           LET h == mOptionsHandlerMap[f]
           IN  /\ h.valueRequired = "none" => h.valueName = << >>
               /\ TakesValue(h.valueRequired) =>
                      /\ h.valueName # << >>
                      /\ \A g \in DOMAIN mOptionsHandlerMap \ {f} :
                             mOptionsHandlerMap[g].valueName # h.valueName
    /\ mOptionsValueNames =
           { mOptionsHandlerMap[f].valueName :
               f \in {g \in DOMAIN mOptionsHandlerMap :
                          TakesValue(mOptionsHandlerMap[g].valueRequired)} }
    /\ \A v \in mOptionsValueNames :
           ~(Known(v) /\ mOptionsHandlerMap[v].valueRequired = "none")
    /\ \A f, g \in DOMAIN mOptionsHandlerMap :
           ParsedKey(f) = ParsedKey(g) => f = g

\* --a holds the value name "--b", and --b taking no value was refused.
C7_Witness ==
    /\ op = "addOption"
    /\ outcome = "invalid_argument"
    /\ args.optionString = FlagB
    /\ args.valueRequired = "none"
    /\ DOMAIN mOptionsHandlerMap = {FlagA}
    /\ mOptionsHandlerMap[FlagA].valueName = FlagB
    /\ mOptionsValueNames = {FlagB}

----------------------------------------------------------------------------
(* C8 *)

NoString == [thrown |-> TRUE, value |-> << >>]

\* The canonical string the claim gives for a raw option string.
CanonicalOf(raw) ==
    IF raw \in {<< >>, << "-" >>, << "-", "-" >>} THEN NoString
    ELSE IF raw[1] # "-" THEN [thrown |-> FALSE, value |-> << "-", "-" >> \o raw]
    ELSE IF raw[2] # "-" THEN [thrown |-> FALSE, value |-> << "-" >> \o raw]
    ELSE [thrown |-> FALSE, value |-> raw]

\* C8: the first addOption of a registry stores the option under the
\* canonical string of its raw string and under nothing else, and throws for
\* "", "-" and "--" (and otherwise only for a spelling of --help); the
\* canonical string starts with "--", is longer than 2 characters and is its
\* own canonical string.
C8_StoredUnderCanonical ==
    op = "addOption" =>
        LET raw == args.optionString
            n == CanonicalOf(raw)
            normalized == NormalizeOptionString(raw)
        IN  /\ ~normalized.thrown =>
                   NormalizeOptionString(normalized.value) = normalized
            /\ outcome = "returned" =>
                   /\ ~n.thrown
                   /\ DOMAIN mOptionsHandlerMap = {n.value}
            /\ n.thrown => outcome = "invalid_argument"
            /\ outcome = "invalid_argument" =>
                   /\ DOMAIN mOptionsHandlerMap = {}
                   /\ n.thrown \/ StrCaseEqual(HelpOption, n.value)
            /\ \A c \in DOMAIN mOptionsHandlerMap :
                   /\ StartsWithDashDash(c)
                   /\ Len(c) > 2
                   /\ NormalizeOptionString(c) = [thrown |-> FALSE, value |-> c]

\* "-name" is stored as "--name".
C8_Witness ==
    /\ op = "addOption"
    /\ args.optionString = << "-", "n", "a", "m", "e" >>
    /\ outcome = "returned"
    /\ DOMAIN mOptionsHandlerMap = {<< "-", "-", "n", "a", "m", "e" >>}

----------------------------------------------------------------------------
(* C1 *)

\* The values of the occurrences of flag in slots from..argc-1, in the order
\* of the vector: the token the occurrence takes, or the default value of
\* the flag.  An occurrence whose required value is not there has none.
RECURSIVE ResolvedValues(_, _, _, _)
ResolvedValues(argv, argc, flag, from) ==
    IF from >= argc THEN << >>
    ELSE IF /\ IsFlagAt(argv, argc, from, flag)
            /\ ~LacksValueAt(argv, argc, from, flag)
    THEN << IF IsValueSlot(argv, argc, from + 1)
            THEN Deref(argv[from + 1])
            ELSE mOptionsHandlerMap[flag].defaultStringValue >>
         \o ResolvedValues(argv, argc, flag, from + 1)
    ELSE ResolvedValues(argv, argc, flag, from + 1)

\* C1: after a scan of a cleared instance, a flag taking a value that occurs
\* with the values v1..vn, n >= 1, has under its value name [v1] if it takes
\* the first, [vn] if it takes the last, and [v1,...,vn] if it takes all.
C1_SelectionPolicy ==
    (Scanned /\ wasCleared) =>
        \A flag \in DOMAIN mOptionsHandlerMap :
            LET h == mOptionsHandlerMap[flag]
                v == ResolvedValues(args.argv, args.argc, flag, 1)
            IN  (TakesValue(h.valueRequired) /\ v # << >>) =>
                    /\ h.valueName \in DOMAIN mParsedOptions
                    /\ mParsedOptions[h.valueName].mOptionValues =
                           CASE h.selection = "take_first" -> << v[1] >>
                             [] h.selection = "take_last" -> << v[Len(v)] >>
                             [] h.selection = "take_all" -> v
                    /\ h.selection # "take_all" =>
                           Len(mParsedOptions[h.valueName].mOptionValues) <= 1

\* prog --t a --t b --t a, with --t taking a required value and all of them.
C1_Witness ==
    /\ Scanned
    /\ wasCleared
    /\ args.argc = 7
    /\ args.argv = [i \in 0..7 |-> << Ptr(Prog), Ptr(FlagT), Ptr(TokA), Ptr(FlagT),
                                      Ptr(TokB), Ptr(FlagT), Ptr(TokA), NULL >>[i + 1]]
    /\ Known(FlagT)
    /\ NameV \in DOMAIN mParsedOptions
    /\ mOptionsHandlerMap[FlagT].valueRequired = "required"
    /\ mOptionsHandlerMap[FlagT].selection = "take_all"
    /\ mParsedOptions[NameV].mOptionValues = << TokA, TokB, TokA >>

----------------------------------------------------------------------------
(* C5 *)

\* C5 as claimed: after parseArguments failed on the shape of the vector, the
\* parsed options and the positional list are empty and no required flag is
\* seen.
C5_MalformedLeavesCleared == Malformed => IsCleared

\* C5 as the code has it: a parseArguments call that fails on the shape of
\* the vector leaves the handlers, the value names and the set of required
\* flags as they were.  When it fails on a NULL slot before argv[ argc ],
\* the parsed options and the positional list are empty and no required
\* flag is seen afterwards; when it fails on argv[ argc ] not being NULL,
\* they are what they were before the call.
C5_MalformedRollsBackOrKeeps ==
    [][ (op' = "parseArguments" /\ outcome' = "invalid_argument") =>
            /\ UNCHANGED << mOptionsHandlerMap, mOptionsValueNames >>
            /\ DOMAIN mRequiredOptions' = DOMAIN mRequiredOptions
            /\ IF args'.argv[args'.argc] = NULL
               THEN /\ \E i \in 1..(args'.argc - 1) : args'.argv[i] = NULL
                    /\ DOMAIN mParsedOptions' = {}
                    /\ mNonOptionArguments' = << >>
                    /\ \A o \in DOMAIN mRequiredOptions' : ~mRequiredOptions'[o]
               ELSE UNCHANGED << mParsedOptions, mNonOptionArguments, mRequiredOptions >>
      ]_vars

\* A vector with a NULL slot, parsed after a parse that had marked --a seen,
\* leaves nothing parsed and --a not seen.
C5_Witness ==
    /\ Malformed
    /\ ~wasCleared
    /\ args.argc = 3
    /\ args.argv = [i \in 0..3 |-> << Ptr(Prog), Ptr(FlagA), NULL, NULL >>[i + 1]]
    /\ DOMAIN mRequiredOptions = {FlagA}
    /\ IsCleared

----------------------------------------------------------------------------
(* C11 *)

\* The loop of parseArguments on an instance as the constructor and the
\* addOption calls that registered the present handlers leave it: nothing
\* parsed, no positional argument, every required option entered as not seen.
FreshScan(argc, argv) ==
    Scan(argc, argv, FirstIndex,
         [ parsed |-> << >>, nonOption |-> << >>,
           required |-> [o \in RequiredFlags |-> FALSE],
           log |-> << >>, end |-> "" ])

\* How a parseArguments call of a well-terminated vector without NULL slots
\* ends, given how its loop was left.
OutcomeOf(st, throwOnMissingOptions) ==
    CASE st.end = "help" -> "exit_success"
      [] st.end = "undefined" -> "undefined"
      [] OTHER -> EndOfParse(MissingOptions(st.required), throwOnMissingOptions)

\* C11: clear() leaves no parsed option and no positional argument, every
\* required flag not seen, and the handlers, the value names and the set of
\* required flags as they were; and a parseArguments call made right after
\* clear() ends as, and leaves the parsed options, the positional list, the
\* seen states and the callback invocations of, the same call on an instance
\* on which the same options were just registered.
C11_ClearResetsResultsOnly ==
    [][ /\ op' = "clear" =>
            /\ DOMAIN mParsedOptions' = {}
            /\ mNonOptionArguments' = << >>
            /\ \A o \in DOMAIN mRequiredOptions' : ~mRequiredOptions'[o]
            /\ DOMAIN mRequiredOptions' = DOMAIN mRequiredOptions
            /\ UNCHANGED << mOptionsHandlerMap, mOptionsValueNames >>
        /\ (op = "clear" /\ op' = "parseArguments") =>
            LET st == FreshScan(args'.argc, args'.argv)
            IN  /\ outcome' = OutcomeOf(st, args'.throwOnMissingOptions)
                /\ mParsedOptions' = st.parsed
                /\ mNonOptionArguments' = st.nonOption
                /\ mRequiredOptions' = st.required
                /\ callbackLog' = st.log
      ]_vars

\* clear() was called on an instance that held the results of a parse, with
\* a required flag registered, and left it without results.
C11_Witness ==
    /\ op = "clear"
    /\ ~wasCleared
    /\ RequiredFlags # {}
    /\ DOMAIN mRequiredOptions = RequiredFlags
    /\ IsCleared

----------------------------------------------------------------------------
(* C12 *)

\* Slot i holds, as a token of its own, a token that starts with "--", is no
\* registered flag and is not --help in any case.
IsUnknownFlagAt(argv, argc, i) ==
    /\ IsTokenSlot(argv, argc, i)
    /\ StartsWithDashDash(Deref(argv[i]))
    /\ ~Known(Deref(argv[i]))
    /\ ~StrCaseEqual(HelpOption, Deref(argv[i]))

\* The token of slot i ends the look-ahead of the flag in slot i - 1, a flag
\* with an optional value that would take the token of slot i + 1 otherwise.
EndsLookAheadAt(argv, argc, i) ==
    /\ 2 <= i
    /\ i + 1 < argc
    /\ IsTokenSlot(argv, argc, i - 1)
    /\ Known(Deref(argv[i - 1]))
    /\ mOptionsHandlerMap[Deref(argv[i - 1])].valueRequired = "optional"
    /\ ~StartsWithDashDash(Deref(argv[i + 1]))

\* The vector of argc - 1 slots without slot i.
WithoutSlot(argv, argc, i) ==
    [j \in 0..(argc - 1) |-> IF j < i THEN argv[j] ELSE argv[j + 1]]

\* The parse recorded left what the loop state st stands for.
LeftAs(st) ==
    /\ outcome = OutcomeOf(st, args.throwOnMissingOptions)
    /\ mParsedOptions = st.parsed
    /\ mNonOptionArguments = st.nonOption
    /\ mRequiredOptions = st.required
    /\ callbackLog = st.log

\* C12 as claimed: a token that starts with "--", is no registered flag and
\* no variant of --help does not end the call as a malformed vector does, and
\* the call ends as, and leaves the parsed options, positional list, seen
\* states and callback invocations of, the call with the vector that does not
\* have the token.
C12_UnknownFlagAsIfAbsent ==
    (Parsed /\ wasCleared /\ WellFormed(args.argv, args.argc)) =>
        \A i \in 1..(args.argc - 1) :
            IsUnknownFlagAt(args.argv, args.argc, i) =>
                /\ outcome # "invalid_argument"
                /\ LeftAs(FreshScan(args.argc - 1,
                                    WithoutSlot(args.argv, args.argc, i)))

\* C12 as the code has it: a token that starts with "--", is no registered
\* flag and no variant of --help, and that the scan reaches as a token of its
\* own, does not end
\* the call as a malformed vector does, and the call leaves what the scan
\* leaves when it goes on at the next token from the parsed options,
\* positional list, seen states and callback invocations it had reached the
\* unknown token with.  That is what the vector without the token leaves,
\* unless the token ends the look-ahead of a flag with an optional value
\* before it: that flag has its default value then, and the token after the
\* unknown one is read as a token of its own.
C12_UnknownFlagIsSkipped ==
    (Parsed /\ wasCleared /\ WellFormed(args.argv, args.argc)) =>
        \A i \in 1..(args.argc - 1) :
            IsUnknownFlagAt(args.argv, args.argc, i) =>
                LET before == FreshScan(i, args.argv)
                IN  /\ outcome # "invalid_argument"
                    /\ before.end = "scanned" =>
                           LeftAs(Scan(args.argc, args.argv, i,
                                       [before EXCEPT !.end = ""]))
                    /\ ~EndsLookAheadAt(args.argv, args.argc, i) =>
                           LeftAs(FreshScan(args.argc - 1,
                                            WithoutSlot(args.argv, args.argc, i)))

\* prog --b --c x with --b a flag without value that has a callback: --b is
\* stored and seen, its callback was called once, x is the positional token.
C12_Witness ==
    /\ Parsed
    /\ wasCleared
    /\ outcome = "returned"
    /\ args.argc = 4
    /\ args.argv = [i \in 0..4 |-> << Ptr(Prog), Ptr(FlagB), Ptr(FlagC), Ptr(TokX),
                                      NULL >>[i + 1]]
    /\ IsUnknownFlagAt(args.argv, args.argc, 2)
    /\ DOMAIN mParsedOptions = {FlagB}
    /\ mRequiredOptions = [o \in {FlagB} |-> TRUE]
    /\ mNonOptionArguments = << TokX >>
    /\ Len(callbackLog) = 1

----------------------------------------------------------------------------
(* C13 *)

\* Slot i holds a variant of --help as a token of its own.
IsHelpAt(argv, argc, i) ==
    /\ IsTokenSlot(argv, argc, i)
    /\ StrCaseEqual(HelpOption, Deref(argv[i]))

\* The registered flags with an occurrence that has a value: a token of
\* its own that does not lack a required value.
OccurringFlags(argv, argc) ==
    { f \in DOMAIN mOptionsHandlerMap :
        \E i \in 1..(argc - 1) : /\ IsFlagAt(argv, argc, i, f)
                                 /\ ~LacksValueAt(argv, argc, i, f) }

\* C13: a flag with an optional value takes the next token when there is
\* one that does not start with "--", and its default value otherwise; a
\* flag with a required value takes the next token when there is one,
\* whatever it is; a flag without value takes none.  A token taken as a
\* value is read as nothing else: the call prints the help and exits only
\* for a variant of --help that is a token of its own, and after a scan to
\* the end the values stored are those of the occurrences, the entries and
\* the seen marks are those of the flags that occur as tokens of their own,
\* and the positional list is the tokens of their own without "--".
C13_ValueResolution ==
    (Parsed /\ wasCleared /\ WellFormed(args.argv, args.argc)) =>
        /\ outcome = "exit_success" <=>
               \E i \in 1..(args.argc - 1) : IsHelpAt(args.argv, args.argc, i)
        /\ Scanned =>
            LET occurring == OccurringFlags(args.argv, args.argc)
            IN  /\ DOMAIN mParsedOptions = {ParsedKey(f) : f \in occurring}
                /\ \A f \in DOMAIN mRequiredOptions :
                       mRequiredOptions[f] <=> f \in occurring
                /\ mNonOptionArguments = PositionalTokens(args.argv, args.argc, 1)
                /\ \A f \in occurring :
                       LET h == mOptionsHandlerMap[f]
                           v == ResolvedValues(args.argv, args.argc, f, 1)
                       IN  mParsedOptions[ParsedKey(f)].mOptionValues =
                               CASE ~TakesValue(h.valueRequired) -> << >>
                                 [] h.selection = "take_first" -> << v[1] >>
                                 [] h.selection = "take_last" -> << v[Len(v)] >>
                                 [] h.selection = "take_all" -> v

\* prog --b --a x with --a and --b registered, --b with a required value:
\* the value of --b is --a, --a is neither stored nor seen, and x is the
\* positional token.
C13_Witness ==
    /\ Parsed
    /\ wasCleared
    /\ outcome = "MissingRequiredOption"
    /\ args.argc = 4
    /\ args.argv = [i \in 0..4 |-> << Ptr(Prog), Ptr(FlagB), Ptr(FlagA), Ptr(TokX),
                                      NULL >>[i + 1]]
    /\ Known(FlagA)
    /\ Known(FlagB)
    /\ mOptionsHandlerMap[FlagB].valueRequired = "required"
    /\ DOMAIN mParsedOptions = {NameW}
    /\ mParsedOptions[NameW].mOptionValues = << FlagA >>
    /\ mRequiredOptions = (FlagA :> FALSE) @@ (FlagB :> TRUE)
    /\ missingOptions = << FlagA >>
    /\ mNonOptionArguments = << TokX >>

----------------------------------------------------------------------------
(* C14 *)

\* The callback invocations the occurrences of slots from..argc-1 stand for:
\* one for every registered flag with a callback that is a token of its own,
\* with the token the occurrence takes, or with the default value of the
\* flag when it takes none.
RECURSIVE OccurrenceValues(_, _, _)
OccurrenceValues(argv, argc, from) ==
    IF from >= argc THEN << >>
    ELSE IF /\ IsTokenSlot(argv, argc, from)
            /\ Known(Deref(argv[from]))
            /\ mOptionsHandlerMap[Deref(argv[from])].callback
    THEN << [ option |-> Deref(argv[from]),
              optionValue |-> IF IsValueSlot(argv, argc, from + 1)
                              THEN Deref(argv[from + 1])
                              ELSE mOptionsHandlerMap[Deref(argv[from])].defaultStringValue ] >>
         \o OccurrenceValues(argv, argc, from + 1)
    ELSE OccurrenceValues(argv, argc, from + 1)

\* The parsed options hold the occurrence the callback is called for.
UpdatedFor(invocation) ==
    LET key == ParsedKey(invocation.option)
        h == mOptionsHandlerMap[invocation.option]
    IN  /\ key \in DOMAIN invocation.parsedOptions
        /\ (TakesValue(h.valueRequired) /\ h.selection # "take_first") =>
               LET values == invocation.parsedOptions[key].mOptionValues
               IN  /\ values # << >>
                   /\ values[Len(values)] = invocation.optionValue

\* C14: after a scan to the end, the callback invocations are, in the order
\* of the vector, one for every occurrence of a registered flag that has a
\* callback, whatever its selection, each with the token the occurrence took
\* or with the default value when it took none, and each made when the
\* parsed options hold the occurrence.
C14_CallbackPerOccurrence ==
    (Scanned /\ wasCleared /\ WellFormed(args.argv, args.argc)) =>
        /\ [i \in 1..Len(callbackLog) |->
               [ option |-> callbackLog[i].option,
                 optionValue |-> callbackLog[i].optionValue ]]
               = OccurrenceValues(args.argv, args.argc, 1)
        /\ \A i \in 1..Len(callbackLog) : UpdatedFor(callbackLog[i])

----------------------------------------------------------------------------
(* C15 *)

\* What parseArguments leaves on an instance on which the present handlers
\* were just registered.
ParseOfFresh(argc, argv, throwOnMissingOptions) ==
    LET st == FreshScan(argc, argv)
    IN  IF argv[argc] # NULL \/ st.end = "null"
        THEN [ outcome |-> "invalid_argument", parsed |-> << >>,
               nonOption |-> << >>, required |-> [o \in RequiredFlags |-> FALSE] ]
        ELSE [ outcome |-> OutcomeOf(st, throwOnMissingOptions),
               parsed |-> st.parsed, nonOption |-> st.nonOption,
               required |-> st.required ]

\* The outcome, parsed options, positional list and seen states now.
Results ==
    [ outcome |-> outcome, parsed |-> mParsedOptions,
      nonOption |-> mNonOptionArguments, required |-> mRequiredOptions ]

\* The values a flag with handler h has stored after occurrences with the
\* values v, n >= 1, when it had the values old before.
ValuesAfter(old, h, v) ==
    CASE ~TakesValue(h.valueRequired) -> << >>
      [] old = << >> /\ h.selection # "take_all" ->
             << IF h.selection = "take_first" THEN v[1] ELSE v[Len(v)] >>
      [] h.selection = "take_first" -> old
      [] h.selection = "take_last" -> << v[Len(v)] >>
      [] h.selection = "take_all" -> old \o v

====
